---- MODULE Spec2Model ----
(***************************************************************************)
(* The three effect-detection command-line adapters of LlamaBurn           *)
(*   scripts/effect_detection/fx_encoder_detect.py   (variant A)           *)
(*   scripts/effect_detection/llm2fx_detect.py       (variant B)           *)
(*   scripts/effect_detection/openamp_detect.py      (variant C)           *)
(* One behaviour of the model is one invocation of one adapter: main()     *)
(* from its first statement to the end of the process.  The file system,   *)
(* the installed packages and the backend's results and exceptions are     *)
(* the environment and are chosen nondeterministically.                    *)
(*                                                                         *)
(* Strings that the code builds by formatting are sequences of fragments   *)
(* (a path is the sequence of its characters), so that concatenation is    *)
(* \o.  A Python value is a record [t |-> type, v |-> text]; a dict is a   *)
(* function whose DOMAIN is its key set, so a missing key is a key outside *)
(* the DOMAIN.                                                             *)
(***************************************************************************)
EXTENDS Integers, Sequences, FiniteSets, TLC

\* Longest path argument (in characters) the environment supplies.
MaxPathLen == 2
\* Most elements in a backend's native effect collection.
MaxEffects == 2

Adapters == {"fx_encoder", "llm2fx", "openamp"}

V(t, v) == [t |-> t, v |-> v]

(***************************************************************************)
(* pathlib: Path(sys.argv[1]) and its str().                               *)
(***************************************************************************)
Sep == "/"
PathChars == {Sep, ".", "a"}

RECURSIVE SeqsUpTo(_, _)
SeqsUpTo(S, n) ==
    IF n = 0 THEN {<<>>}
    ELSE LET shorter == SeqsUpTo(S, n - 1)
         IN  shorter \cup {Append(s, x) : s \in shorter, x \in S}

PathArgs == SeqsUpTo(PathChars, MaxPathLen)

RECURSIVE LStrip(_)
LStrip(s) == IF s # <<>> /\ Head(s) = Sep THEN LStrip(Tail(s)) ELSE s

RECURSIVE Split(_, _)
Split(s, cur) ==
    IF s = <<>> THEN <<cur>>
    ELSE IF Head(s) = Sep THEN <<cur>> \o Split(Tail(s), <<>>)
    ELSE Split(Tail(s), Append(cur, Head(s)))

RECURSIVE Join(_)
Join(parts) ==
    IF parts = <<>> THEN <<>>
    ELSE IF Len(parts) = 1 THEN parts[1]
    ELSE parts[1] \o <<Sep>> \o Join(Tail(parts))

KeepPart(c) == c # <<>> /\ c # <<".">>

\* Path(arg): the root ("", "/" or "//") and the components, with empty
\* components and "." components dropped.
Path(arg) ==
    LET rel == LStrip(arg)
        n   == Len(arg) - Len(rel)
    IN  [root  |-> IF n = 0 THEN <<>> ELSE IF n = 2 THEN <<Sep, Sep>> ELSE <<Sep>>,
         parts |-> SelectSeq(Split(rel, <<>>), KeepPart)]

\* str(path), as used by the f-string of the file-not-found message.
PathStr(p) ==
    IF p.root = <<>> /\ p.parts = <<>> THEN <<".">> ELSE p.root \o Join(p.parts)

(***************************************************************************)
(* Exceptions.                                                             *)
(***************************************************************************)
ImportErrorClasses == {"ImportError", "ModuleNotFoundError"}
ExceptionClasses ==
    ImportErrorClasses \cup
    {"RuntimeError", "OSError", "AttributeError", "TypeError", "ValueError"}
\* KeyboardInterrupt derives from BaseException only: it is in neither set.

Exc(cls, msg) == [cls |-> cls, msg |-> msg]
NoExc == Exc("", <<>>)

\* What a backend call may raise, whatever the call.
BackendRaises ==
    { Exc("ImportError", <<"cannot import name">>),
      Exc("RuntimeError", <<"backend failure">>),
      Exc("KeyboardInterrupt", <<>>) }

IsImportError(e) == e.cls \in ImportErrorClasses
IsException(e) == e.cls \in ExceptionClasses

(***************************************************************************)
(* Per-adapter text and keys.                                              *)
(***************************************************************************)
UsageMessage(a) ==
    CASE a = "fx_encoder" -> <<"Usage: fx_encoder_detect.py <audio_file>">>
      [] a = "llm2fx"     -> <<"Usage: llm2fx_detect.py <audio_file>">>
      [] a = "openamp"    -> <<"Usage: openamp_detect.py <audio_file>">>

ScriptName(a) ==
    CASE a = "fx_encoder" -> "fx_encoder_detect.py"
      [] a = "llm2fx"     -> "llm2fx_detect.py"
      [] a = "openamp"    -> "openamp_detect.py"

\* The modules the try block imports, in order.
Imports(a) ==
    CASE a = "fx_encoder" -> <<"fx_encoder">>
      [] a = "llm2fx"     -> <<"llm2fx">>
      [] a = "openamp"    -> <<"librosa", "openamp">>

InstallHint(a) ==
    CASE a = "fx_encoder" ->
           "git clone https://github.com/SonyResearch/Fx-Encoder_PlusPlus && pip install -r requirements.txt"
      [] a = "llm2fx"     -> "pip install llm2fx-tools  # See: https://arxiv.org/abs/2512.01559"
      [] a = "openamp"    -> "pip install openamp librosa"

ImportErrorMessage(a, e) ==
    IF a = "fx_encoder" THEN <<"fx_encoder not installed">>
    ELSE <<"Import failed: ">> \o e.msg

EffectsKey(a) ==
    CASE a = "fx_encoder" -> "effects"
      [] a = "llm2fx"     -> "effect_chain"
      [] a = "openamp"    -> "detected_effects"

EmbeddingsKey(a) == IF a = "openamp" THEN "encodings" ELSE "embeddings"

(***************************************************************************)
(* Python values and the raw results a backend may return.                 *)
(***************************************************************************)
JsonTypes == {"str", "int", "float", "none", "list", "dict"}

\* dict.get(key, default) on a dict d (a function over its keys).
Get(d, key, default) == IF key \in DOMAIN d THEN d[key] ELSE default

\* A dict of at most two keys; a value of type "missing" leaves its key out.
Missing == V("missing", "")
Dict2(k1, v1, k2, v2) ==
    (IF v1.t = "missing" THEN <<>> ELSE k1 :> v1) @@
    (IF v2.t = "missing" THEN <<>> ELSE k2 :> v2)
Dict3(k1, v1, k2, v2, k3, v3) ==
    Dict2(k1, v1, k2, v2) @@ (IF v3.t = "missing" THEN <<>> ELSE k3 :> v3)

\* Keys (effect names) and values of a name -> confidence mapping (variants
\* A and C).
Names == {V("str", "reverb"), V("str", "delay"), V("str", "chorus")}
Confs == {V("float", "0.9"), V("int", "1"), V("str", "0.3"), V("str", "high")}
Item(k, c) == [k |-> k, val |-> c]
DistinctKeys(s) == \A i, j \in 1..Len(s) : i # j => s[i].k # s[j].k
ItemSeqs ==
    { s \in SeqsUpTo({Item(k, c) : k \in Names, c \in Confs}, MaxEffects) :
        DistinctKeys(s) }
\* The value under the effects key: a dict in insertion order, or not a dict.
EffectMappings ==
    {[t |-> "dict", items |-> s] : s \in ItemSeqs} \cup {[t |-> "list", items |-> <<>>]}

\* The value under the embeddings key: a list, or an array json cannot dump.
EmbeddingValues == {V("list", "[0.1, 0.2]"), V("ndarray", "array([0.1, 0.2])")}

\* Entries of an effect chain (variant B).
TypeValues == {V("str", "reverb")}
ChainConfs == {V("float", "0.9"), V("str", "high")}
ParamValues == {V("dict", "{}"), V("dict", "{decay: 0.3}")}
ChainEntries ==
    { [t |-> "dict", d |-> Dict3("type", ty, "confidence", c, "params", p)] :
        ty \in TypeValues \cup {Missing},
        c  \in ChainConfs \cup {Missing},
        p  \in ParamValues \cup {Missing} }
    \cup {[t |-> "str", d |-> <<>>]}
EffectChains ==
    {[t |-> "list", items |-> s] : s \in SeqsUpTo(ChainEntries, MaxEffects)}
    \cup {[t |-> "none", items |-> <<>>]}

EffectValues(a) == IF a = "llm2fx" THEN EffectChains ELSE EffectMappings
MissingEffects == [t |-> "missing", items |-> <<>>]

\* Everything analyze / analyze_audio / extract may return.
RawResults(a) ==
    { [t |-> "dict", d |-> Dict2(EffectsKey(a), eff, EmbeddingsKey(a), emb)] :
        eff \in EffectValues(a) \cup {MissingEffects},
        emb \in EmbeddingValues \cup {Missing} }
    \cup {[t |-> "none", d |-> <<>>]}
NoResult == [t |-> "unset", d |-> <<>>]

\* float(x): the float, or the exception float() raises.
NumericText == {"0.3"}
\* The text of float(x) for a numeric x: an int gains its ".0".
FloatText(x) == IF x.t = "int" /\ x.v = "1" THEN "1.0" ELSE x.v
Float(x) ==
    CASE x.t = "float" -> [ok |-> TRUE, val |-> V("float", FloatText(x)), exc |-> NoExc]
      [] x.t = "int"   -> [ok |-> TRUE, val |-> V("float", FloatText(x)), exc |-> NoExc]
      [] x.t = "str" /\ x.v \in NumericText ->
                          [ok |-> TRUE, val |-> V("float", FloatText(x)), exc |-> NoExc]
      [] x.t = "str" /\ x.v \notin NumericText ->
                          [ok |-> FALSE, val |-> x,
                           exc |-> Exc("ValueError", <<"could not convert string to float: ", x.v>>)]
      [] OTHER         -> [ok |-> FALSE, val |-> x,
                           exc |-> Exc("TypeError", <<"float() argument must be a string or a real number">>)]

(***************************************************************************)
(* The state of one invocation.                                            *)
(***************************************************************************)
VARIABLES
    adapter,    \* which script runs
    argv,       \* sys.argv: the script name, then the arguments
    fs,         \* what stat() of the path argument finds
    installed,  \* the importable modules among those the script imports
    pc,         \* the statement main() is at
    imported,   \* the modules imported so far
    calls,      \* the backend operations attempted so far, in order
    exc,        \* the exception in flight
    result,     \* the raw backend result
    pending,    \* the raw effect elements the loop has yet to visit
    effects,    \* the effects list under construction
    stdout,     \* the documents printed so far
    exitCode    \* the process exit status, -1 while running

vars == <<adapter, argv, fs, installed, pc, imported, calls, exc, result,
          pending, effects, stdout, exitCode>>

\* "present": stat succeeds.  "absent": stat fails with ENOENT or ENOTDIR.
\* "oserror": stat fails otherwise (EACCES on a directory of the path,
\* ENAMETOOLONG, ...), which takes a path with at least one component.
FsStates == {"present", "absent", "oserror"}
FsStatesOf(av) ==
    IF Len(av) >= 2 /\ Path(av[2]).parts = <<>> THEN FsStates \ {"oserror"}
    ELSE FsStates

ToSet(s) == {s[i] : i \in 1..Len(s)}

Init ==
    /\ adapter \in Adapters
    /\ argv \in {<<ScriptName(adapter)>>} \cup {<<ScriptName(adapter), p>> : p \in PathArgs}
    /\ fs \in FsStatesOf(argv)
    /\ installed \in SUBSET ToSet(Imports(adapter))
    /\ pc = "argc"
    /\ imported = <<>>
    /\ calls = <<>>
    /\ exc = NoExc
    /\ result = NoResult
    /\ pending = <<>>
    /\ effects = <<>>
    /\ stdout = <<>>
    /\ exitCode = -1

(***************************************************************************)
(* Documents.                                                              *)
(***************************************************************************)
ErrorDocument(msg) == [error |-> msg]
InstallDocument(msg, hint) == [error |-> msg, install |-> hint]
DetectionResult(effs, emb) == [effects |-> effs, embeddings |-> emb]

\* Variant of FileNotFoundMessage that formats sys.argv[1] itself.
FileNotFoundMessageArgv(arg) == <<"File not found: ">> \o arg

FileNotFoundMessage(arg) == <<"File not found: ">> \o PathStr(Path(arg))

\* print(json.dumps(doc)); sys.exit(code)
PrintAndExit(doc, code) ==
    /\ stdout' = Append(stdout, doc)
    /\ exitCode' = code
    /\ pc' = "exit"

\* An exception raised inside the try block.
Raise(e) ==
    /\ exc' = e
    /\ pc' = "except"

\* An exception raised outside any try block: traceback on stderr, nothing
\* on stdout, exit status 1.
Die(e) ==
    /\ exc' = e
    /\ pc' = "traceback"
    /\ exitCode' = 1

(***************************************************************************)
(* Input resolution.                                                       *)
(***************************************************************************)
TooFewArguments(av) == Len(av) < 2

\* if len(sys.argv) < 2: print usage; sys.exit(1)
CheckArgs ==
    /\ pc = "argc"
    /\ IF TooFewArguments(argv)
       THEN /\ PrintAndExit(ErrorDocument(UsageMessage(adapter)), 1)
       ELSE /\ pc' = "exists"
            /\ UNCHANGED <<stdout, exitCode>>
    /\ UNCHANGED <<adapter, argv, fs, installed, imported, calls, exc, result,
                   pending, effects>>

\* Variant of Exists that takes every path to exist.
ExistsUnchecked(state) == [ok |-> TRUE, val |-> TRUE, exc |-> NoExc]

\* Path.exists(): False for ENOENT/ENOTDIR, the OSError itself otherwise.
Exists(state) ==
    CASE state = "present" -> [ok |-> TRUE, val |-> TRUE, exc |-> NoExc]
      [] state = "absent"  -> [ok |-> TRUE, val |-> FALSE, exc |-> NoExc]
      [] state = "oserror" -> [ok |-> FALSE, val |-> FALSE,
                               exc |-> Exc("OSError", <<"[Errno 13] Permission denied">>)]

\* audio_path = Path(sys.argv[1]); if not audio_path.exists(): ...
CheckExists ==
    /\ pc = "exists"
    /\ LET r == Exists(fs) IN
       IF ~r.ok
       THEN /\ Die(r.exc)
            /\ UNCHANGED stdout
       ELSE IF ~r.val
       THEN /\ PrintAndExit(ErrorDocument(FileNotFoundMessage(argv[2])), 1)
            /\ UNCHANGED exc
       ELSE /\ pc' = "import"
            /\ UNCHANGED <<stdout, exitCode, exc>>
    /\ UNCHANGED <<adapter, argv, fs, installed, imported, calls, result,
                   pending, effects>>

(***************************************************************************)
(* The try block: imports and backend calls.                               *)
(***************************************************************************)
ModuleNotFound(m) == Exc("ModuleNotFoundError", <<"No module named ", m>>)

\* The statement after the imports.
AfterImport(a) == IF a = "openamp" THEN "decode" ELSE "load"

\* from fx_encoder import FxEncoder / from llm2fx import EffectPredictor /
\* import librosa; from openamp import FxEncoder -- one module per step.
ImportModule ==
    /\ pc = "import"
    /\ LET m == Imports(adapter)[Len(imported) + 1] IN
       /\ calls' = Append(calls, m)
       /\ \/ /\ m \notin installed
             /\ Raise(ModuleNotFound(m))
             /\ UNCHANGED imported
          \/ /\ m \in installed
             /\ \E e \in BackendRaises : Raise(e)
             /\ UNCHANGED imported
          \/ /\ m \in installed
             /\ imported' = Append(imported, m)
             /\ pc' = IF Len(imported) + 1 = Len(Imports(adapter))
                      THEN AfterImport(adapter) ELSE "import"
             /\ UNCHANGED exc
    /\ UNCHANGED <<adapter, argv, fs, installed, result, pending, effects,
                   stdout, exitCode>>

\* A call into the backend at statement `at`: it returns, or raises.
BackendCall(at, name, next) ==
    /\ pc = at
    /\ calls' = Append(calls, name)
    /\ \/ /\ pc' = next
          /\ UNCHANGED exc
       \/ \E e \in BackendRaises : Raise(e)

\* audio, sr = librosa.load(str(audio_path), sr=None)      (variant C)
LibrosaLoad ==
    /\ BackendCall("decode", "librosa.load", "load")
    /\ UNCHANGED <<adapter, argv, fs, installed, imported, result, pending,
                   effects, stdout, exitCode>>

\* encoder = FxEncoder.from_pretrained() / EffectPredictor.from_pretrained()
FromPretrained ==
    /\ BackendCall("load", "from_pretrained", "analyze")
    /\ UNCHANGED <<adapter, argv, fs, installed, imported, result, pending,
                   effects, stdout, exitCode>>

AnalyzeName(a) ==
    CASE a = "fx_encoder" -> "analyze"
      [] a = "llm2fx"     -> "analyze_audio"
      [] a = "openamp"    -> "extract"

\* result = encoder.analyze(...) / predictor.analyze_audio(...) /
\* encoder.extract(audio, sr)
Analyze ==
    /\ BackendCall("analyze", AnalyzeName(adapter), "iter")
    /\ IF pc' = "iter"
       THEN result' \in RawResults(adapter)
       ELSE UNCHANGED result
    /\ UNCHANGED <<adapter, argv, fs, installed, imported, pending, effects,
                   stdout, exitCode>>

(***************************************************************************)
(* Normalization.                                                          *)
(***************************************************************************)
Ok(v) == [ok |-> TRUE, val |-> v, exc |-> NoExc]
Fail(v, e) == [ok |-> FALSE, val |-> v, exc |-> e]

\* Variant of EffectsDefault: result.get(key) without a default.
EffectsDefaultNone(a) == [t |-> "none", items |-> <<>>]

\* The default of result.get(<effects key>, default).
EffectsDefault(a) ==
    IF a = "llm2fx" THEN [t |-> "list", items |-> <<>>]
    ELSE [t |-> "dict", items |-> <<>>]

\* Variant of Iterable that visits each distinct element once.
RECURSIVE Deduplicated(_)
Deduplicated(s) ==
    IF s = <<>> THEN <<>>
    ELSE LET front == Deduplicated(SubSeq(s, 1, Len(s) - 1))
             last  == s[Len(s)]
         IN  IF \E i \in 1..Len(front) : front[i] = last THEN front
             ELSE Append(front, last)
IterableDeduplicated(a, res) ==
    IF res.t # "dict"
    THEN Fail(<<>>, Exc("AttributeError", <<"'NoneType' object has no attribute 'get'">>))
    ELSE LET c == Get(res.d, EffectsKey(a), EffectsDefault(a)) IN
         IF c.t = (IF a = "llm2fx" THEN "list" ELSE "dict")
         THEN Ok(Deduplicated(c.items))
         ELSE Fail(<<>>, Exc("TypeError", <<"not iterable">>))

\* The elements the for loop will visit: result.get(key, {}).items() in A
\* and C, result.get("effect_chain", []) in B.
Iterable(a, res) ==
    IF res.t # "dict"
    THEN Fail(<<>>, Exc("AttributeError", <<"'NoneType' object has no attribute 'get'">>))
    ELSE LET c == Get(res.d, EffectsKey(a), EffectsDefault(a)) IN
         IF a = "llm2fx"
         THEN IF c.t = "list" THEN Ok(c.items)
              ELSE Fail(<<>>, Exc("TypeError", <<"'NoneType' object is not iterable">>))
         ELSE IF c.t = "dict" THEN Ok(c.items)
              ELSE Fail(<<>>, Exc("AttributeError", <<"'list' object has no attribute 'items'">>))

DefaultName == V("str", "unknown")
\* Variant of DefaultConfidence: full confidence when none is given.
DefaultConfidenceOne == V("float", "1.0")
DefaultConfidence == V("float", "0.5")
DefaultParams == V("dict", "{}")
NoEffect == [name |-> V("none", ""), confidence |-> V("none", "")]

\* Variant of MapElement that leaves parameters out when the entry has none.
MapElementOmitParams(a, el) ==
    IF a = "llm2fx"
    THEN IF el.t # "dict"
         THEN Fail(NoEffect, Exc("AttributeError", <<"'str' object has no attribute 'get'">>))
         ELSE IF "params" \in DOMAIN el.d
         THEN Ok([name       |-> Get(el.d, "type", DefaultName),
                  confidence |-> Get(el.d, "confidence", DefaultConfidence),
                  parameters |-> el.d["params"]])
         ELSE Ok([name       |-> Get(el.d, "type", DefaultName),
                  confidence |-> Get(el.d, "confidence", DefaultConfidence)])
    ELSE LET f == Float(el.val) IN
         IF f.ok THEN Ok([name |-> el.k, confidence |-> f.val])
         ELSE Fail(NoEffect, f.exc)

\* The body of the for loop: one raw element to one output effect.
MapElement(a, el) ==
    IF a = "llm2fx"
    THEN IF el.t # "dict"
         THEN Fail(NoEffect, Exc("AttributeError", <<"'str' object has no attribute 'get'">>))
         ELSE Ok([name       |-> Get(el.d, "type", DefaultName),
                  confidence |-> Get(el.d, "confidence", DefaultConfidence),
                  parameters |-> Get(el.d, "params", DefaultParams)])
    ELSE LET f == Float(el.val) IN
         IF f.ok THEN Ok([name |-> el.k, confidence |-> f.val])
         ELSE Fail(NoEffect, f.exc)

EmptyList == V("list", "[]")

\* The value of the output's "embeddings" key.
Embeddings(a, res) ==
    IF a = "llm2fx" THEN EmptyList
    ELSE Get(res.d, EmbeddingsKey(a), EmptyList)

Output(a, effs, res) == DetectionResult(effs, Embeddings(a, res))

\* json.dumps(output): the document, or TypeError for a value json cannot
\* encode.
Dumpable(v) == v.t \in JsonTypes
Dumps(doc) ==
    IF /\ Dumpable(doc.embeddings)
       /\ \A i \in 1..Len(doc.effects) :
            \A k \in DOMAIN doc.effects[i] : Dumpable(doc.effects[i][k])
    THEN Ok(doc)
    ELSE Fail(doc, Exc("TypeError", <<"Object of type ndarray is not JSON serializable">>))

\* effects = []; for ... in <iterable>:
IterEffects ==
    /\ pc = "iter"
    /\ LET it == Iterable(adapter, result) IN
       IF it.ok
       THEN /\ pending' = it.val
            /\ effects' = <<>>
            /\ pc' = "map"
            /\ UNCHANGED exc
       ELSE /\ Raise(it.exc)
            /\ UNCHANGED <<pending, effects>>
    /\ UNCHANGED <<adapter, argv, fs, installed, imported, calls, result,
                   stdout, exitCode>>

\* effects.append({...}) for the next element
MapEffect ==
    /\ pc = "map"
    /\ pending # <<>>
    /\ LET m == MapElement(adapter, Head(pending)) IN
       IF m.ok
       THEN /\ effects' = Append(effects, m.val)
            /\ pending' = Tail(pending)
            /\ UNCHANGED <<pc, exc>>
       ELSE /\ Raise(m.exc)
            /\ UNCHANGED <<pending, effects>>
    /\ UNCHANGED <<adapter, argv, fs, installed, imported, calls, result,
                   stdout, exitCode>>

\* output = {...}; print(json.dumps(output)); main() returns: exit status 0
PrintResult ==
    /\ pc = "map"
    /\ pending = <<>>
    /\ LET r == Dumps(Output(adapter, effects, result)) IN
       IF r.ok
       THEN /\ PrintAndExit(r.val, 0)
            /\ UNCHANGED exc
       ELSE /\ Raise(r.exc)
            /\ UNCHANGED <<stdout, exitCode>>
    /\ UNCHANGED <<adapter, argv, fs, installed, imported, calls, result,
                   pending, effects>>

(***************************************************************************)
(* The except clauses.                                                     *)
(***************************************************************************)
\* Variant of Handler with the except clauses in the other order.
HandlerExceptionFirst(e) ==
    IF IsException(e) THEN "Exception"
    ELSE IF IsImportError(e) THEN "ImportError"
    ELSE "none"

\* Which clause takes an exception raised in the try block: the clauses are
\* tried in order, by class.
Handler(e) ==
    IF IsImportError(e) THEN "ImportError"
    ELSE IF IsException(e) THEN "Exception"
    ELSE "none"

\* except ImportError: print error and install; sys.exit(1)
ExceptImportError ==
    /\ pc = "except"
    /\ Handler(exc) = "ImportError"
    /\ PrintAndExit(InstallDocument(ImportErrorMessage(adapter, exc),
                                    InstallHint(adapter)), 1)
    /\ UNCHANGED <<adapter, argv, fs, installed, imported, calls, exc, result,
                   pending, effects>>

\* except Exception as e: print str(e); sys.exit(1)
ExceptException ==
    /\ pc = "except"
    /\ Handler(exc) = "Exception"
    /\ PrintAndExit(ErrorDocument(exc.msg), 1)
    /\ UNCHANGED <<adapter, argv, fs, installed, imported, calls, exc, result,
                   pending, effects>>

\* No clause matches: the exception leaves main().
Uncaught ==
    /\ pc = "except"
    /\ Handler(exc) = "none"
    /\ Die(exc)
    /\ UNCHANGED <<adapter, argv, fs, installed, imported, calls, result,
                   pending, effects, stdout>>

Next ==
    \/ CheckArgs
    \/ CheckExists
    \/ ImportModule
    \/ LibrosaLoad
    \/ FromPretrained
    \/ Analyze
    \/ IterEffects
    \/ MapEffect
    \/ PrintResult
    \/ ExceptImportError
    \/ ExceptException
    \/ Uncaught

Spec == Init /\ [][Next]_vars

(***************************************************************************)
(* Properties.                                                             *)
(***************************************************************************)
Terminated == pc \in {"exit", "traceback"}
Succeeded == pc = "exit" /\ exitCode = 0
Failed == pc = "exit" /\ exitCode = 1

IsDetectionResult(doc) == DOMAIN doc = {"effects", "embeddings"}
IsErrorDocument(doc) == "error" \in DOMAIN doc /\ DOMAIN doc \subseteq {"error", "install"}

HasPathArg == Len(argv) >= 2

\* The backend's native effect collection in the raw result, in its order.
RawCollection ==
    IF result.t = "dict" /\ EffectsKey(adapter) \in DOMAIN result.d
    THEN result.d[EffectsKey(adapter)].items
    ELSE <<>>

\* The exception in flight was raised by an import statement.
RaisedAtImport ==
    /\ exc # NoExc
    /\ calls # <<>>
    /\ calls[Len(calls)] \in ToSet(Imports(adapter))

\* C1: every invocation prints exactly one document -- a DetectionResult,
\* then exit status 0, or an ErrorDocument, then exit status 1 -- and never
\* more than one.
C1_ExactlyOneDocument ==
    /\ Len(stdout) <= 1
    /\ Terminated =>
         /\ Len(stdout) = 1
         /\ \/ exitCode = 0 /\ IsDetectionResult(stdout[1])
            \/ exitCode = 1 /\ IsErrorDocument(stdout[1])

C3_InstallIffImportStep ==
    (Failed /\ Len(stdout) = 1) =>
        /\ ("install" \in DOMAIN stdout[1]) => RaisedAtImport
        /\ (RaisedAtImport /\ exc.cls \in {"ImportError", "ModuleNotFoundError"}) =>
               "install" \in DOMAIN stdout[1]

\* C3 (amended): the ErrorDocument has an install field exactly when the
\* exception raised in the try block is an ImportError (ModuleNotFoundError
\* included), at whichever statement it was raised; usage errors, missing
\* files and exceptions of any other class give a document with only error.
C3_InstallIffImportErrorClass ==
    (Failed /\ Len(stdout) = 1) =>
        /\ IsErrorDocument(stdout[1])
        /\ ("install" \in DOMAIN stdout[1]) <=>
               exc.cls \in {"ImportError", "ModuleNotFoundError"}

C3_Witness ==
    /\ Failed /\ Len(stdout) = 1
    /\ "install" \in DOMAIN stdout[1]
    /\ ~RaisedAtImport
    /\ calls[Len(calls)] = "from_pretrained"

\* C4: whatever exception is raised at whatever step, the process ends with
\* one ErrorDocument on stdout and exit status 1, never with a traceback and
\* no document.
C4_NoExceptionEscapes ==
    (Terminated /\ exc # NoExc) =>
        /\ pc = "exit"
        /\ exitCode = 1
        /\ Len(stdout) = 1
        /\ IsErrorDocument(stdout[1])

\* C5: on success the document has the keys effects and embeddings and no
\* error key, and every effect has a string name and a numeric confidence.
C5_SuccessSchema ==
    Succeeded =>
        /\ Len(stdout) = 1
        /\ {"effects", "embeddings"} \subseteq DOMAIN stdout[1]
        /\ "error" \notin DOMAIN stdout[1]
        /\ \A i \in 1..Len(stdout[1].effects) :
             /\ {"name", "confidence"} \subseteq DOMAIN stdout[1].effects[i]
             /\ stdout[1].effects[i].name.t = "str"
             /\ stdout[1].effects[i].confidence.t \in {"int", "float"}

\* C6: in variant B, on success, an effect-chain entry without confidence
\* becomes an effect of confidence exactly 0.5, an entry with one keeps its
\* value, and embeddings is the empty array whatever the backend returned.
C6_DefaultConfidenceAndNoEmbeddings ==
    (adapter = "llm2fx" /\ Succeeded) =>
        /\ Len(stdout) = 1
        /\ stdout[1].embeddings = V("list", "[]")
        /\ Len(stdout[1].effects) = Len(RawCollection)
        /\ \A i \in 1..Len(RawCollection) :
             IF "confidence" \in DOMAIN RawCollection[i].d
             THEN stdout[1].effects[i].confidence = RawCollection[i].d["confidence"]
             ELSE stdout[1].effects[i].confidence = V("float", "0.5")

C6_Witness ==
    /\ adapter = "llm2fx" /\ Succeeded
    /\ "embeddings" \in DOMAIN result.d
    /\ \E i \in 1..Len(RawCollection) : "confidence" \notin DOMAIN RawCollection[i].d
    /\ \E i \in 1..Len(RawCollection) : "confidence" \in DOMAIN RawCollection[i].d

\* C7: on success effects has one element per element of the backend's
\* effect collection, in the backend's order, the i-th name being the i-th
\* raw element's key (A, C) or type (B): nothing is filtered, deduplicated
\* or reordered.
C7_OneEffectPerRawElement ==
    Succeeded =>
        /\ Len(stdout) = 1
        /\ Len(stdout[1].effects) = Len(RawCollection)
        /\ \A i \in 1..Len(RawCollection) :
             IF adapter = "llm2fx"
             THEN "type" \in DOMAIN RawCollection[i].d =>
                      stdout[1].effects[i].name = RawCollection[i].d["type"]
             ELSE stdout[1].effects[i].name = RawCollection[i].k

C7_Witness ==
    /\ adapter = "llm2fx" /\ Succeeded
    /\ Len(RawCollection) = 2
    /\ RawCollection[1] = RawCollection[2]
    /\ "type" \in DOMAIN RawCollection[1].d
    /\ Len(stdout[1].effects) = 2

\* C8 (as stated): an output effect has a parameters field only when the
\* backend supplied parameters for its raw element; a variant B entry
\* without params gives an effect without parameters.
C8_ParametersOnlyWhenSupplied ==
    (Succeeded /\ Len(stdout) = 1) =>
        \A i \in 1..Len(stdout[1].effects) :
            ("parameters" \in DOMAIN stdout[1].effects[i]) =>
                /\ adapter = "llm2fx"
                /\ "params" \in DOMAIN RawCollection[i].d

\* C8 (amended): in variant B every output effect has a parameters field:
\* the backend's params when the entry has them, the empty mapping when it
\* has none.  In variants A and C no output effect has a parameters field.
C8_ParametersDefaultEmpty ==
    (Succeeded /\ Len(stdout) = 1) =>
        /\ Len(stdout[1].effects) = Len(RawCollection)
        /\ \A i \in 1..Len(stdout[1].effects) :
             IF adapter = "llm2fx"
             THEN /\ "parameters" \in DOMAIN stdout[1].effects[i]
                  /\ stdout[1].effects[i].parameters =
                        IF "params" \in DOMAIN RawCollection[i].d
                        THEN RawCollection[i].d["params"]
                        ELSE V("dict", "{}")
             ELSE "parameters" \notin DOMAIN stdout[1].effects[i]

C8_Witness ==
    /\ adapter = "llm2fx" /\ Succeeded
    /\ Len(stdout) = 1
    /\ \E i \in 1..Len(RawCollection) :
         /\ "params" \notin DOMAIN RawCollection[i].d
         /\ stdout[1].effects[i].parameters = V("dict", "{}")

\* The raw result is a mapping without its effects key, or (A, C) without
\* its embeddings key.
LacksEffects == result.t = "dict" /\ EffectsKey(adapter) \notin DOMAIN result.d
LacksEmbeddings ==
    /\ result.t = "dict"
    /\ adapter # "llm2fx"
    /\ EmbeddingsKey(adapter) \notin DOMAIN result.d

\* Every key the raw result does have holds a value the adapter can map
\* and json can encode.
PresentKeysUsable ==
    /\ result.t = "dict"
    /\ EffectsKey(adapter) \in DOMAIN result.d =>
         LET c == result.d[EffectsKey(adapter)] IN
         IF adapter = "llm2fx"
         THEN c.t = "list" /\ \A i \in 1..Len(c.items) : c.items[i].t = "dict"
         ELSE c.t = "dict" /\
              \A i \in 1..Len(c.items) :
                  \/ c.items[i].val.t \in {"int", "float"}
                  \/ c.items[i].val = V("str", "0.3")
    /\ (adapter # "llm2fx" /\ EmbeddingsKey(adapter) \in DOMAIN result.d) =>
         result.d[EmbeddingsKey(adapter)].t = "list"

\* C9 (as stated): when the raw result is a mapping that lacks its effects
\* key or its embeddings key, the invocation succeeds with exit status 0.
C9_MissingKeySucceeds ==
    (Terminated /\ (LacksEffects \/ LacksEmbeddings)) => Succeeded

\* C9 (amended): when the raw result is a mapping that lacks its effects
\* key or its embeddings key, and the keys it does have hold values the
\* adapter can convert and serialize, normalization does not raise: the
\* invocation succeeds with exit status 0 and each missing collection is an
\* empty array in the DetectionResult.
C9_MissingKeyBecomesEmpty ==
    ((LacksEffects \/ LacksEmbeddings) /\ PresentKeysUsable) =>
        /\ pc \notin {"except", "traceback"}
        /\ exc = NoExc
        /\ pc = "exit" =>
             /\ exitCode = 0
             /\ Len(stdout) = 1
             /\ IsDetectionResult(stdout[1])
             /\ LacksEffects => stdout[1].effects = <<>>
             /\ LacksEmbeddings => stdout[1].embeddings = V("list", "[]")

C9_Witness ==
    /\ Succeeded
    /\ LacksEffects /\ LacksEmbeddings
    /\ stdout = <<[effects |-> <<>>, embeddings |-> V("list", "[]")]>>

\* C10: the argument count is checked before the file, and both before the
\* backend is imported or called.  Without a path argument the outcome is
\* the usage document and exit status 1 whatever the file system and the
\* installed packages; when input resolution fails nothing of the backend
\* is touched, so a missing file with a missing backend reports the missing
\* file, without install.
C10_ResolveBeforeBackend ==
    /\ (calls # <<>> \/ imported # <<>>) => (HasPathArg /\ fs = "present")
    /\ ~HasPathArg =>
         /\ pc \in {"argc", "exit"}
         /\ pc = "exit" =>
              /\ exitCode = 1
              /\ Len(stdout) = 1
              /\ DOMAIN stdout[1] = {"error"}
              /\ stdout[1].error[1] \in
                   {"Usage: fx_encoder_detect.py <audio_file>",
                    "Usage: llm2fx_detect.py <audio_file>",
                    "Usage: openamp_detect.py <audio_file>"}
    /\ (HasPathArg /\ fs = "absent" /\ Terminated) =>
         /\ exitCode = 1
         /\ Len(stdout) = 1
         /\ DOMAIN stdout[1] = {"error"}
         /\ stdout[1].error[1] = "File not found: "

C10_Witness ==
    /\ Failed
    /\ HasPathArg /\ fs = "absent" /\ installed = {}
    /\ Len(stdout) = 1
    /\ calls = <<>>

====
